---- MODULE Spec2Model ----
(***************************************************************************)
(* Model of sigmaSd/crash-report: the Reporter (hook.ts + reporter.ts +    *)
(* utils.ts) and the Collector (server.ts).                                *)
(*                                                                         *)
(* Text is modelled as a sequence of lexical pieces: " " is whitespace,    *)
(* "{" "}" "[" "]" "," ":" are the JSON punctuation, "1" is a digit,       *)
(* "null" and "true" are the literals, and every other piece is one        *)
(* quoted string literal (the piece "report" is the text "report" in       *)
(* double quotes).                                                         *)
(***************************************************************************)
EXTENDS Integers, Sequences, FiniteSets, Bags, TLC

\* ------------------------------------------------------------------ bounds
MaxReports == 2       \* identifiers the Collector hands out in one run
MaxKvFailures == 2    \* storage failures the environment injects in one run
MaxInFlight == 2      \* requests the Collector handles at the same time
MaxInvocations == 2   \* errors raised plus direct calls made by the host
MaxManualCalls == 1   \* direct calls of crashReport made by the host
MaxSubErrors == 2     \* errors gathered in one AggregateError

\* ------------------------------------------------------------------- state
VARIABLES
  \* Collector (server.ts)
  slots,          \* slot -> the handler invocation running there
  store,          \* the Deno KV database: key -> value
  openKvHandles,  \* Deno.Kv handles opened and not closed
  issued,         \* identifiers crypto.randomUUID() has returned
  kvFailures,     \* storage failures injected so far
  \* Reporter (hook.ts, reporter.ts, utils.ts)
  env,            \* the CRASH_REPORT_BASE_URL environment variable
  os,             \* Deno.build.os
  hook,           \* "pending" until hook.ts has been imported
  listeners,      \* event types with a listener added by the hook
  procs,          \* bag of listener invocations and direct crashReport calls
  raised,         \* errors the host has raised so far
  called,         \* direct crashReport calls the host has made so far
  exited,         \* the host process has ended
  exitCode,       \* its exit status
  \* utils.ts called on its own
  input,          \* the value serializeValueForReport is called with
  output          \* what it returned

collectorVars == <<slots, store, openKvHandles, issued, kvFailures>>
reporterVars ==
  <<env, os, hook, listeners, procs, raised, called, exited, exitCode>>
utilVars == <<input, output>>
vars == <<collectorVars, reporterVars, utilVars>>

\* --------------------------------------------------------------- JSON text
JNull == [k |-> "null"]
JBool(b) == [k |-> "bool", v |-> b]
JNum(n) == [k |-> "num", v |-> n]
JStr(s) == [k |-> "str", v |-> s]
JArr(a) == [k |-> "arr", v |-> a]
JObj(m) == [k |-> "obj", v |-> m]

Punct == {" ", "{", "}", "[", "]", ",", ":", "1", "null", "true"}
IsStrTok(c) == c \notin Punct

ParseFail == [ok |-> FALSE, val |-> JNull, next |-> 0]
ParseOk(v, n) == [ok |-> TRUE, val |-> v, next |-> n]

RECURSIVE SkipWs(_, _)
SkipWs(s, i) == IF i <= Len(s) /\ s[i] = " " THEN SkipWs(s, i + 1) ELSE i

RECURSIVE NumEnd(_, _)
NumEnd(s, i) == IF i <= Len(s) /\ s[i] = "1" THEN NumEnd(s, i + 1) ELSE i

RECURSIVE NumVal(_)
NumVal(n) == IF n = 0 THEN 0 ELSE 10 * NumVal(n - 1) + 1

\* obj[key] = val on a JS object: an existing key keeps its position
PutMember(m, key, val) ==
  IF \E i \in 1..Len(m) : m[i][1] = key
  THEN [i \in 1..Len(m) |-> IF m[i][1] = key THEN <<key, val>> ELSE m[i]]
  ELSE Append(m, <<key, val>>)

RECURSIVE ParseValue(_, _)
RECURSIVE ParseElems(_, _, _)
RECURSIVE ParseMembers(_, _, _)

ParseValue(s, i0) ==
  LET i == SkipWs(s, i0) IN
  IF i > Len(s) THEN ParseFail
  ELSE IF s[i] = "null" THEN ParseOk(JNull, i + 1)
  ELSE IF s[i] = "true" THEN ParseOk(JBool(TRUE), i + 1)
  ELSE IF s[i] = "1" THEN ParseOk(JNum(NumVal(NumEnd(s, i) - i)), NumEnd(s, i))
  ELSE IF IsStrTok(s[i]) THEN ParseOk(JStr(s[i]), i + 1)
  ELSE IF s[i] = "["
    THEN LET j == SkipWs(s, i + 1) IN
         IF j <= Len(s) /\ s[j] = "]" THEN ParseOk(JArr(<<>>), j + 1)
         ELSE ParseElems(s, i + 1, <<>>)
  ELSE IF s[i] = "{"
    THEN LET j == SkipWs(s, i + 1) IN
         IF j <= Len(s) /\ s[j] = "}" THEN ParseOk(JObj(<<>>), j + 1)
         ELSE ParseMembers(s, i + 1, <<>>)
  ELSE ParseFail

ParseElems(s, i, acc) ==
  LET r == ParseValue(s, i) IN
  IF ~r.ok THEN ParseFail
  ELSE LET j == SkipWs(s, r.next) IN
       IF j > Len(s) THEN ParseFail
       ELSE IF s[j] = "," THEN ParseElems(s, j + 1, Append(acc, r.val))
       ELSE IF s[j] = "]" THEN ParseOk(JArr(Append(acc, r.val)), j + 1)
       ELSE ParseFail

ParseMembers(s, i0, acc) ==
  LET i == SkipWs(s, i0) IN
  IF i > Len(s) \/ ~IsStrTok(s[i]) THEN ParseFail
  ELSE LET c == SkipWs(s, i + 1) IN
       IF c > Len(s) \/ s[c] # ":" THEN ParseFail
       ELSE LET r == ParseValue(s, c + 1) IN
            IF ~r.ok THEN ParseFail
            ELSE LET j == SkipWs(s, r.next)
                     acc2 == PutMember(acc, s[i], r.val) IN
                 IF j > Len(s) THEN ParseFail
                 ELSE IF s[j] = "," THEN ParseMembers(s, j + 1, acc2)
                 ELSE IF s[j] = "}" THEN ParseOk(JObj(acc2), j + 1)
                 ELSE ParseFail

\* JSON.parse / Request.json(): ok = FALSE stands for the SyntaxError
JSONParse(s) ==
  LET r == ParseValue(s, 1) IN
  IF r.ok /\ SkipWs(s, r.next) > Len(s)
  THEN [ok |-> TRUE, val |-> r.val]
  ELSE [ok |-> FALSE, val |-> JNull]

RECURSIVE Ones(_)
Ones(n) == IF n < 1 THEN <<>> ELSE Append(Ones(n \div 10), "1")

RECURSIVE Stringify(_, _)
RECURSIVE StringifyElems(_, _, _)
RECURSIVE StringifyMembers(_, _, _)

\* JSON.stringify(value, null, indent): sp is the whitespace the indent puts
\* after an opening bracket, after a comma and a colon, before a closing one
Stringify(v, sp) ==
  IF v.k = "null" THEN <<"null">>
  ELSE IF v.k = "bool" THEN <<"true">>
  ELSE IF v.k = "num" THEN Ones(v.v)
  ELSE IF v.k = "str" THEN <<v.v>>
  ELSE IF v.k = "text" THEN <<"<quoted text>">>
  ELSE IF v.k \in {"error", "aggregate"} THEN Stringify(JObj(v.props), sp)
  ELSE IF v.k = "arr"
    THEN IF v.v = <<>> THEN <<"[", "]">>
         ELSE <<"[">> \o sp \o StringifyElems(v.v, 1, sp) \o sp \o <<"]">>
  ELSE IF v.v = <<>> THEN <<"{", "}">>
       ELSE <<"{">> \o sp \o StringifyMembers(v.v, 1, sp) \o sp \o <<"}">>

StringifyElems(a, i, sp) ==
  IF i > Len(a) THEN <<>>
  ELSE Stringify(a[i], sp) \o (IF i < Len(a) THEN <<",">> \o sp ELSE <<>>)
       \o StringifyElems(a, i + 1, sp)

StringifyMembers(m, i, sp) ==
  IF i > Len(m) THEN <<>>
  ELSE <<m[i][1], ":">> \o sp \o Stringify(m[i][2], sp)
       \o (IF i < Len(m) THEN <<",">> \o sp ELSE <<>>)
       \o StringifyMembers(m, i + 1, sp)

\* JSON.stringify(value)
JSONStringify(v) == Stringify(v, <<>>)

\* JSON.stringify throws a TypeError on a cyclic structure
RECURSIVE Cyclic(_)
Cyclic(v) ==
  IF v.k = "cyclic" THEN TRUE
  ELSE IF v.k = "arr" THEN \E i \in 1..Len(v.v) : Cyclic(v.v[i])
  ELSE IF v.k = "obj" THEN \E i \in 1..Len(v.v) : Cyclic(v.v[i][2])
  ELSE FALSE

\* key in obj, for a parsed JSON value that is an object
HasKey(v, key) == \E i \in 1..Len(v.v) : v.v[i][1] = key


\* ---------------------------------------------------------------- Collector
REPORT_PATH == "/api/report"

NoHeader == [present |-> FALSE, val |-> <<>>]
Header(h) == [present |-> TRUE, val |-> h]

Paths == {REPORT_PATH, "/api/reports"}
Methods == {"POST", "GET"}
ContentTypes ==
  { NoHeader, Header(<<>>), Header(<<"text/plain">>),
    Header(<<"application/json">>),
    Header(<<"Application/JSON", "; charset=utf-8">>) }
Bodies ==
  { <<>>,
    <<"{", "report">>,
    <<"null">>,
    <<"1">>,
    <<"report">>,
    <<"true">>,
    <<"[", "report", ",", "timestamp", "]">>,
    <<"{", "}">>,
    <<"{", "report", ":", "1", "}">>,
    <<"{", "timestamp", ":", "t0", "}">>,
    <<"{", "timestamp", ":", "t0", ",", "report", ":", "null", "}">>,
    <<"{", "timestamp", ":", "t0", ",", " ", "report", ":", "{", "type", ":",
      "error", "}", ",", "reporterInfo", ":", "{", "os", ":", "linux", "}", "}">> }
Requests == [path : Paths, method : Methods, ctype : ContentTypes, body : Bodies]

StorageErrors == {"NotCapable: requires read access", "database is locked"}
CommitFailed == "KV commit failed for versionstamp"
UUIDs == {"uuid-" \o ToString(i) : i \in 1..MaxReports}

\* String.prototype.toLowerCase on a header value
LowerPiece(t) ==
  CASE t = "Application/JSON" -> "application/json"
    [] t = "APPLICATION/JSON" -> "application/json"
    [] OTHER -> t
ToLowerCase(h) == [i \in 1..Len(h) |-> LowerPiece(h[i])]
Includes(h, piece) == \E i \in 1..Len(h) : h[i] = piece

NoReq == [path |-> "", method |-> "", ctype |-> NoHeader, body |-> <<>>]
NoResp == [status |-> 0, headers |-> {}, body |-> <<>>]
Response(status, headers, body) ==
  [status |-> status, headers |-> headers, body |-> body]

Idle ==
  [pc |-> "idle", req |-> NoReq, bodyRead |-> FALSE, reportData |-> JNull,
   reportId |-> "", kv |-> FALSE, kvOutcome |-> "", resp |-> NoResp]
Slots == DOMAIN slots

\* the handler returns resp after the store answered with outcome
Returned(i, outcome, resp) ==
  [slots[i] EXCEPT !.pc = "done", !.kvOutcome = outcome, !.resp = resp]

\* variant: the timestamp key is not required
InvalidShapeReportOnly(v) ==
  \/ v.k \notin {"obj", "arr", "null"}
  \/ v.k = "null"
  \/ (IF v.k = "arr" THEN TRUE ELSE ~HasKey(v, "report"))

\* typeof reportData !== "object" || reportData === null ||
\* !("report" in reportData) || !("timestamp" in reportData)
InvalidShape(v) ==
  \/ v.k \notin {"obj", "arr", "null"}
  \/ v.k = "null"
  \/ (IF v.k = "arr" THEN TRUE ELSE ~HasKey(v, "report"))
  \/ (IF v.k = "arr" THEN TRUE ELSE ~HasKey(v, "timestamp"))

\* variant: the header is compared without toLowerCase()
BadContentTypeCaseSensitive(ctype) ==
  ~ctype.present \/ ctype.val = <<>>
    \/ ~Includes(ctype.val, "application/json")

\* the content-type test of the handler
BadContentType(ctype) ==
  ~ctype.present \/ ctype.val = <<>>
    \/ ~Includes(ToLowerCase(ctype.val), "application/json")

\* variant: the caught error is put into the body
ErrorResponseLeaks(err) ==
  Response(500, {}, <<"Internal Server Error: ", err>>)

ErrorResponse(err) ==
  Response(500, {}, <<"Internal Server Error: Failed to store report">>)

\* variant: every report goes under one key
KvKeyFixed(reportId) == <<"reports", "latest">>

KvKey(reportId) == <<"reports", reportId>>
\* variant: only the report field of the payload is stored
KvSetReportField(db, key, value) ==
  (key :> value.v[CHOOSE i \in 1..Len(value.v) : value.v[i][1] = "report"][2])
    @@ db

\* kv.set(key, value) once committed
KvSet(db, key, value) == (key :> value) @@ db

\* variant: the body is read as the request comes in
ArrivedBodyRead(r) == [Idle EXCEPT !.req = r, !.bodyRead = TRUE]

\* the invocation the handler starts with for request r
Arrived(r) == [Idle EXCEPT !.req = r]

\* handler up to its first await: routing, method and content-type checks
Receive(r) ==
  /\ \E i \in Slots :
       /\ slots[i].pc = "idle"
       /\ \A j \in Slots : j < i => slots[j].pc # "idle"
       /\ LET s == Arrived(r) IN
          slots' = [slots EXCEPT ![i] =
            IF r.path # REPORT_PATH
              THEN [s EXCEPT !.pc = "done",
                             !.resp = Response(404, {}, <<"Not Found">>)]
            ELSE IF r.method # "POST"
              THEN [s EXCEPT !.pc = "done",
                             !.resp = Response(405, {<<"Allow", "POST">>},
                                               <<"Method Not Allowed">>)]
            ELSE IF BadContentType(r.ctype)
              THEN [s EXCEPT !.pc = "done",
                             !.resp = Response(415, {},
                               <<"Unsupported Media Type: Expected application/json">>)]
            ELSE [s EXCEPT !.pc = "json"]]
  /\ UNCHANGED <<store, openKvHandles, issued, kvFailures, reporterVars, utilVars>>

\* await req.json() settles; payload validation; Deno.openKv() is called
ReadBody(i) ==
  /\ slots[i].pc = "json"
  /\ LET parsed == JSONParse(slots[i].req.body)
         s == [slots[i] EXCEPT !.bodyRead = TRUE] IN
     slots' = [slots EXCEPT ![i] =
       IF ~parsed.ok
         THEN [s EXCEPT !.pc = "done",
                        !.resp = Response(400, {},
                          <<"Bad Request: Invalid JSON - ", "SyntaxError">>)]
       ELSE IF InvalidShape(parsed.val)
         THEN [s EXCEPT !.pc = "done",
                        !.resp = Response(400, {},
                          <<"Bad Request: Payload missing required fields (e.g., timestamp, report)">>)]
       ELSE [s EXCEPT !.pc = "openKv", !.reportData = parsed.val]]
  /\ UNCHANGED <<store, openKvHandles, issued, kvFailures, reporterVars, utilVars>>

\* variant: an identifier may come back a second time
randomUUIDRepeats(used) == UUIDs

\* crypto.randomUUID(): the identifiers it can return once it returned used
randomUUID(used) == UUIDs \ used

\* await Deno.openKv() resolves; randomUUID; kv.set is called
OpenKvOk(i) ==
  /\ slots[i].pc = "openKv"
  /\ \E id \in randomUUID(issued) :
       /\ issued' = issued \cup {id}
       /\ slots' = [slots EXCEPT ![i] =
            [@ EXCEPT !.pc = "set", !.kv = TRUE, !.reportId = id]]
  /\ openKvHandles' = openKvHandles + 1
  /\ UNCHANGED <<store, kvFailures, reporterVars, utilVars>>

\* await Deno.openKv() rejects
OpenKvThrows(i) ==
  /\ slots[i].pc = "openKv"
  /\ kvFailures < MaxKvFailures
  /\ kvFailures' = kvFailures + 1
  /\ \E err \in StorageErrors :
       slots' = [slots EXCEPT ![i] = Returned(i, err, ErrorResponse(err))]
  /\ UNCHANGED <<store, openKvHandles, issued, reporterVars, utilVars>>

\* await kv.set() resolves with ok: kv.close(), 201
KvSetOk(i) ==
  /\ slots[i].pc = "set"
  /\ store' = KvSet(store, KvKey(slots[i].reportId), slots[i].reportData)
  /\ openKvHandles' = openKvHandles - 1
  /\ slots' = [slots EXCEPT ![i] =
       [@ EXCEPT !.pc = "done", !.kv = FALSE, !.kvOutcome = "ok",
          !.resp = Response(201, {<<"Content-Type", "application/json">>},
            JSONStringify(JObj(<<
              <<"message", JStr("Report received successfully")>>,
              <<"id", JStr(slots[i].reportId)>> >>)))]]
  /\ UNCHANGED <<issued, kvFailures, reporterVars, utilVars>>

\* await kv.set() resolves with ok: false: the handler throws, catch -> 500
KvSetNotOk(i) ==
  /\ slots[i].pc = "set"
  /\ kvFailures < MaxKvFailures
  /\ kvFailures' = kvFailures + 1
  /\ slots' = [slots EXCEPT ![i] =
       Returned(i, CommitFailed, ErrorResponse(CommitFailed))]
  /\ UNCHANGED <<store, openKvHandles, issued, reporterVars, utilVars>>

\* variant: the write is committed and the handler throws after it
KvSetThrowsAfterCommit(i) ==
  /\ slots[i].pc = "set"
  /\ kvFailures < MaxKvFailures
  /\ kvFailures' = kvFailures + 1
  /\ store' = KvSet(store, KvKey(slots[i].reportId), slots[i].reportData)
  /\ \E err \in StorageErrors :
       slots' = [slots EXCEPT ![i] = Returned(i, err, ErrorResponse(err))]
  /\ UNCHANGED <<openKvHandles, issued, reporterVars, utilVars>>

\* await kv.set() rejects: catch -> 500
KvSetThrows(i) ==
  /\ slots[i].pc = "set"
  /\ kvFailures < MaxKvFailures
  /\ kvFailures' = kvFailures + 1
  /\ \E err \in StorageErrors :
       slots' = [slots EXCEPT ![i] = Returned(i, err, ErrorResponse(err))]
  /\ UNCHANGED <<store, openKvHandles, issued, reporterVars, utilVars>>

\* Deno.serve writes the returned Response; the invocation is over
Deliver(i) ==
  /\ slots[i].pc = "done"
  /\ slots' = [slots EXCEPT ![i] = Idle]
  /\ UNCHANGED <<store, openKvHandles, issued, kvFailures, reporterVars, utilVars>>

\* ----------------------------------------------------------------- Reporter
Unset == [present |-> FALSE, val |-> <<>>]
Set(v) == [present |-> TRUE, val |-> v]
\* truthiness of a string | undefined | null
Truthy(x) == x.present /\ x.val # <<>>

\* values of the environment variable: unset, empty, a lone slash, a base URL
\* without and with a trailing slash
EnvValues ==
  { Unset, Set(<<>>), Set(<<"/">>), Set(<<"http://h">>), Set(<<"http://h", "/">>) }
OSes == {"windows", "darwin", "linux", "freebsd"}

\* variant: the base URL is used as it is configured
KeepTrailingSlash(u) == u

\* s.replace(/\/$/, "")
StripTrailingSlash(u) ==
  IF Len(u) > 0 /\ u[Len(u)] = "/" THEN SubSeq(u, 1, Len(u) - 1) ELSE u

BaseUrlOf(e) == IF e.present THEN Set(StripTrailingSlash(e.val)) ELSE Unset
EndpointOf(e) ==
  IF Truthy(BaseUrlOf(e)) THEN Set(BaseUrlOf(e).val \o <<"/api/report">>)
  ELSE Unset

CRASH_REPORT_BASE_URL == BaseUrlOf(env)
CRASH_REPORT_ENDPOINT == EndpointOf(env)

\* values the host throws or rejects with
ErrorValue(name, message, props) ==
  [k |-> "error", name |-> name, message |-> message,
   stack |-> "at main.ts:1:1", props |-> props]
CyclicValue == [k |-> "cyclic"]
HostValues ==
  { ErrorValue("Error", "boom", <<>>),
    ErrorValue("HttpError", "not found", << <<"code", JNum(1)>> >>),
    JStr("oops"),
    CyclicValue }
StringifyTypeError ==
  ErrorValue("TypeError", "Converting circular structure to JSON", <<>>)

\* new AggregateError(errors, message), with custom properties props
AggregateErrorValue(message, errors, props) ==
  [k |-> "aggregate", name |-> "AggregateError", message |-> message,
   stack |-> "at main.ts:1:1", props |-> props, errors |-> errors]

\* value instanceof Error: AggregateError is a subclass of Error
InstanceOfError(value) == value.k \in {"error", "aggregate"}
InstanceOfAggregateError(value) == value.k = "aggregate"

\* variant: only name, message and stack are copied
OwnPropertiesDropped(value) == <<>>

\* the own properties of an Error other than name, message and stack, with
\* their values: errors on an AggregateError, then what the host added
OwnProperties(value) ==
  IF value.k = "aggregate"
  THEN << <<"errors", JArr(value.errors)>> >> \o value.props
  ELSE value.props

RECURSIVE serializeValueForReport(_)
serializeValueForReport(value) ==
  IF InstanceOfError(value)
  THEN JObj(<< <<"name", JStr(value.name)>>,
               <<"message", JStr(value.message)>>,
               <<"stack", JStr(value.stack)>> >> \o OwnProperties(value))
  ELSE IF InstanceOfAggregateError(value)
  THEN JObj(<< <<"name", JStr(value.name)>>,
               <<"message", JStr(value.message)>>,
               <<"stack", JStr(value.stack)>>,
               <<"errors",
                 JArr([i \in 1..Len(value.errors) |->
                        serializeValueForReport(value.errors[i])])>> >>
            \o value.props)
  ELSE value

\* the reportData object each listener builds
ReportData(kind, value) ==
  IF kind = "error"
  THEN JObj(<< <<"type", JStr("error")>>,
               <<"message", JStr("Uncaught")>>,
               <<"filename", JStr("file:///main.ts")>>,
               <<"lineno", JNum(1)>>,
               <<"colno", JNum(1)>>,
               <<"error", serializeValueForReport(value)>> >>)
  ELSE JObj(<< <<"type", JStr("unhandledrejection")>>,
               <<"reason", serializeValueForReport(value)>> >>)

RECURSIVE TrimStart(_)
TrimStart(t) == IF t # <<>> /\ Head(t) = " " THEN TrimStart(Tail(t)) ELSE t
RECURSIVE TrimEnd(_)
TrimEnd(t) ==
  IF t # <<>> /\ t[Len(t)] = " " THEN TrimEnd(SubSeq(t, 1, Len(t) - 1)) ELSE t
Trim(t) == TrimEnd(TrimStart(t))

\* variant: the content is compared without trim()
EmptyOrMinimalUntrimmed(content) ==
  content = <<>> \/ content = <<"{", "}">>

\* the guard at the top of crashReport
EmptyOrMinimal(content) ==
  content = <<>> \/ Trim(content) = <<>> \/ Trim(content) = <<"{", "}">>

ManualContents ==
  { <<>>, <<" ">>, <<" ", "{", "}">>, <<"{", " ", "}">>,
    <<"{", "type", ":", "manual_report", "}">>,
    <<"{", "type">> }

NoPost == [sent |-> FALSE, url |-> <<>>, method |-> "", headers |-> {}, body |-> <<>>]

\* the outcomes of running the dialog command, or of confirm()
NoOutcome == [kind |-> "", success |-> FALSE, detail |-> ""]
DialogOutcomes(o) ==
  IF o \in {"windows", "darwin", "linux"}
  THEN [kind : {"exit"}, success : BOOLEAN, detail : {""}]
       \cup [kind : {"throw"}, success : {FALSE},
             detail : {"NotFound", "PermissionDenied"}]
  ELSE [kind : {"confirm"}, success : BOOLEAN, detail : {""}]

\* how a call completes: it returns value, or it throws; prompted tells
\* whether confirm() asked on the console
Completion(threw, value, prompted) ==
  [threw |-> threw, value |-> value, prompted |-> prompted]

\* variant: the try block has no catch, a failing command throws to the caller
showConfirmationDialogUncaught(o, outcome) ==
  IF o \in {"windows", "darwin", "linux"}
  THEN IF outcome.kind = "throw" THEN Completion(TRUE, FALSE, FALSE)
       ELSE Completion(FALSE, outcome.success, FALSE)
  ELSE Completion(FALSE, outcome.success, TRUE)

\* showConfirmationDialog: the command of the platform, or confirm() on any
\* other platform; the catch block answers false
showConfirmationDialog(o, outcome) ==
  IF o \in {"windows", "darwin", "linux"}
  THEN IF outcome.kind = "throw" THEN Completion(FALSE, FALSE, FALSE)
       ELSE Completion(FALSE, outcome.success, FALSE)
  ELSE Completion(FALSE, outcome.success, TRUE)

FetchOutcomes == {"ok", "status", "statusBodyUnreadable", "networkError"}

\* a JS string held as a value: the text of a report
JText(t) == [k |-> "text", v |-> t]

\* variant: the content string itself is sent as the report
ReportPayloadRaw(contentJsonString) == JText(contentJsonString)

\* reportPayload: JSON.parse(contentJsonString), with its fallback
ReportPayload(contentJsonString) ==
  LET parsed == JSONParse(contentJsonString) IN
  IF parsed.ok THEN parsed.val
  ELSE JObj(<< <<"type", JStr("parse_failure")>>,
               <<"raw_report_string", JText(contentJsonString)>> >>)

\* sendReportInternal up to its await: JSON.parse with its fallback, fetch
sendReportInternal(p, contentJsonString) ==
  LET reportPayload == ReportPayload(contentJsonString)
      envelope ==
        JObj(<< <<"timestamp", JStr("now")>>,
                <<"report", reportPayload>>,
                <<"reporterInfo",
                  JObj(<< <<"os", JStr(os)>>, <<"arch", JStr("x86_64")>>,
                          <<"denoVersion", JStr("2.0.0")>> >>)>> >>)
  IN [p EXCEPT !.pc = "fetch", !.postCalls = @ + 1,
        !.post = [sent |-> TRUE, url |-> CRASH_REPORT_ENDPOINT.val,
                  method |-> "POST",
                  headers |-> {<<"Content-Type", "application/json">>,
                               <<"User-Agent", "DenoCrashReporter">>},
                  body |-> JSONStringify(envelope)]]

sendReport(p) ==
  IF ~Truthy(CRASH_REPORT_ENDPOINT) THEN [p EXCEPT !.pc = "finished"]
  ELSE sendReportInternal(p, p.content)

\* the catch block of crashReport: the reporter's own error is sent without
\* asking, and a failure of that send is caught in turn
CatchBlock(p, err) ==
  IF Truthy(CRASH_REPORT_ENDPOINT)
  THEN sendReportInternal(
         [p EXCEPT !.caught = TRUE],
         JSONStringify(JObj(<<
           <<"type", JStr("reporter_internal_error")>>,
           <<"error", serializeValueForReport(err)>>,
           <<"original_report_string", JText(p.content)>> >>)))
  ELSE [p EXCEPT !.caught = TRUE, !.pc = "finished"]

DialogError(detail) == ErrorValue(detail, "Failed to spawn", <<>>)
FetchError == ErrorValue("TypeError", "error sending request", <<>>)

\* variant: the report is sent whatever the dialog answered
AfterConfirmationAlwaysSends(p) == sendReport(p)

\* crashReport once the dialog has answered: if (confirmed) sendReport
AfterConfirmation(p) ==
  IF p.confirmed THEN sendReport(p) ELSE [p EXCEPT !.pc = "finished"]

\* crashReport once await showConfirmationDialog(...) has settled with c
AfterDialog(p, c) ==
  IF c.threw THEN CatchBlock([p EXCEPT !.prompted = c.prompted],
                             DialogError(p.dialog.detail))
  ELSE AfterConfirmation([p EXCEPT !.confirmed = c.value,
                                   !.prompted = c.prompted])

\* variant: the last catch of sendReportInternal is missing
FetchCompletionUncaught(outcome) ==
  Completion(outcome = "networkError", FALSE, FALSE)

\* how sendReportInternal completes once fetch has settled: every outcome
\* is logged, the body of a failure is read inside a try of its own
FetchCompletion(outcome) == Completion(FALSE, FALSE, FALSE)

\* variant: a send that failed on the network is made again
AfterSendRetries(p, outcome) ==
  LET q == [p EXCEPT !.fetched = outcome] IN
  IF outcome = "networkError" THEN sendReport(q)
  ELSE [q EXCEPT !.pc = "finished"]

\* crashReport once its await of the send has settled; an error thrown by the
\* send inside the catch block is caught there
AfterSend(p, outcome) ==
  LET q == [p EXCEPT !.fetched = outcome] IN
  IF FetchCompletion(outcome).threw /\ ~p.caught
  THEN CatchBlock(q, FetchError)
  ELSE [q EXCEPT !.pc = "finished"]

\* crashReport up to its first await
crashReport(origin, value, content) ==
  LET p == [origin |-> origin, value |-> value, content |-> content,
            pc |-> "dialog", dialog |-> NoOutcome, confirmed |-> FALSE,
            dialogCalls |-> 0, post |-> NoPost, fetched |-> "",
            secondary |-> FALSE, caught |-> FALSE, prompted |-> FALSE,
            postCalls |-> 0, prevented |-> FALSE] IN
  IF EmptyOrMinimal(content) THEN [p EXCEPT !.pc = "exited"]
  ELSE [p EXCEPT !.dialogCalls = 1]

\* a listener of hook.ts up to its first await: event.preventDefault(), the
\* report data, JSON.stringify, crashReport
Listener(kind, value) ==
  IF Cyclic(ReportData(kind, value))
  THEN [origin |-> kind, value |-> value, content |-> <<>>,
        pc |-> "rejected", dialog |-> NoOutcome, confirmed |-> FALSE,
        dialogCalls |-> 0, post |-> NoPost, fetched |-> "",
        secondary |-> FALSE, caught |-> FALSE, prompted |-> FALSE,
            postCalls |-> 0, prevented |-> TRUE]
  ELSE [crashReport(kind, value, Stringify(ReportData(kind, value), <<" ">>))
          EXCEPT !.prevented = TRUE]

\* variant: Deno.exit(1) follows the send instead of sitting in a finally
ListenerExitsAfterSend(p) ==
  p.origin \in {"error", "unhandledrejection"} /\ p.post.sent

\* variant: a listener leaves the exit to the last one still at work
ListenerExitsWhenLast(p) ==
  /\ p.origin \in {"error", "unhandledrejection"}
  /\ BagCardinality(
       [q \in {r \in BagToSet(procs) : r.pc \in {"dialog", "fetch"}} |->
          CopiesIn(q, procs)]) <= 1

\* the finally block of a listener calls Deno.exit(1)
ListenerExits(p) == p.origin \in {"error", "unhandledrejection"}

\* variant: the listeners are added without looking at the endpoint
HookListenersUnguarded(e) == {"error", "unhandledrejection"}

\* the listeners hook.ts adds when it is imported
HookListeners(e) ==
  IF Truthy(EndpointOf(e)) THEN {"error", "unhandledrejection"} ELSE {}

One(p) == SetToBag({p})

\* variant: crashReport is not awaited, the finally block runs at once
ExitsNowUnawaited(q) == q.pc = "exited" \/ ListenerExits(q)

\* Deno.exit(1) is called: by the guard of crashReport, or by the finally
\* block of a listener once its await of crashReport is over
ExitsNow(q) == q.pc = "exited" \/ (q.pc = "finished" /\ ListenerExits(q))

\* an invocation continues, returns to its caller or ends the process;
\* others are the invocations it leaves alone
Settle(others, q) ==
  IF ExitsNow(q)
  THEN /\ procs' = others (+) One([q EXCEPT !.pc = "exited"])
       /\ exited' = TRUE
       /\ exitCode' = 1
  ELSE /\ procs' = others (+) One(IF q.pc = "finished"
                                  THEN [q EXCEPT !.pc = "returned"] ELSE q)
       /\ UNCHANGED <<exited, exitCode>>

\* the runtime dispatches an event: to the hook's listener, or its default
\* handling, which ends the process with status 1
Dispatch(others, kind, value) ==
  IF kind \in listeners
  THEN Settle(others, Listener(kind, value))
  ELSE /\ procs' = others
       /\ exited' = TRUE
       /\ exitCode' = 1

ImportHook ==
  /\ ~exited
  /\ hook = "pending"
  /\ hook' = "imported"
  /\ listeners' = HookListeners(env)
  /\ UNCHANGED <<env, os, procs, raised, called, exited, exitCode, collectorVars, utilVars>>

\* the host throws an uncaught error or leaves a rejection unhandled
HostRaises(kind, value) ==
  /\ ~exited
  /\ raised + called < MaxInvocations
  /\ raised' = raised + 1
  /\ Dispatch(procs, kind, value)
  /\ UNCHANGED <<env, os, hook, listeners, called, collectorVars, utilVars>>

\* host code calls crashReport itself
ManualCall(content) ==
  /\ ~exited
  /\ raised + called < MaxInvocations
  /\ called < MaxManualCalls
  /\ called' = called + 1
  /\ Settle(procs, crashReport("manual", JNull, content))
  /\ UNCHANGED <<env, os, hook, listeners, raised, collectorVars, utilVars>>

\* await showConfirmationDialog(...) settles
DialogReturns(p, outcome) ==
  /\ ~exited
  /\ p.pc = "dialog"
  /\ Settle(procs (-) One(p),
            AfterDialog([p EXCEPT !.dialog = outcome],
                        showConfirmationDialog(os, outcome)))
  /\ UNCHANGED <<env, os, hook, listeners, raised, called, collectorVars, utilVars>>

\* await fetch(...) settles (and response.text() after a non-2xx status)
FetchReturns(p, outcome) ==
  /\ ~exited
  /\ p.pc = "fetch"
  /\ Settle(procs (-) One(p), AfterSend(p, outcome))
  /\ UNCHANGED <<env, os, hook, listeners, raised, called, collectorVars, utilVars>>

\* the promise of a listener that threw is reported as an unhandled rejection
RejectionReported(p) ==
  /\ ~exited
  /\ p.pc = "rejected"
  /\ ~p.secondary
  /\ Dispatch((procs (-) One(p)) (+) One([p EXCEPT !.secondary = TRUE]),
              "unhandledrejection", StringifyTypeError)
  /\ UNCHANGED <<env, os, hook, listeners, raised, called, collectorVars, utilVars>>

Procs == BagToSet(procs)

\* ------------------------------------------------------------------- utils
NotCalled == [k |-> "none"]

\* host code calls serializeValueForReport(input)
Serialize ==
  /\ output = NotCalled
  /\ output' = serializeValueForReport(input)
  /\ UNCHANGED <<input, collectorVars, reporterVars>>

\* ----------------------------------------------------------- specifications
ReporterAtRest ==
  /\ hook = "pending"
  /\ listeners = {}
  /\ procs = EmptyBag
  /\ raised = 0
  /\ called = 0
  /\ exited = FALSE
  /\ exitCode = 0

UtilsAtRest ==
  /\ input = JNull
  /\ output = NotCalled

CollectorAtRest ==
  /\ slots = <<Idle>>
  /\ store = [key \in {} |-> JNull]
  /\ openKvHandles = 0
  /\ issued = {}
  /\ kvFailures = 0

InitCollector ==
  /\ CollectorAtRest
  /\ env = Unset
  /\ os = "linux"
  /\ ReporterAtRest
  /\ UtilsAtRest

NextCollector ==
  \/ \E r \in Requests : Receive(r)
  \/ \E i \in Slots : ReadBody(i)
  \/ \E i \in Slots : OpenKvOk(i)
  \/ \E i \in Slots : OpenKvThrows(i)
  \/ \E i \in Slots : KvSetOk(i)
  \/ \E i \in Slots : KvSetNotOk(i)
  \/ \E i \in Slots : KvSetThrows(i)
  \/ \E i \in Slots : Deliver(i)

SpecCollector == InitCollector /\ [][NextCollector]_vars

InitReporter ==
  /\ env \in EnvValues
  /\ os \in OSes
  /\ ReporterAtRest
  /\ CollectorAtRest
  /\ UtilsAtRest

NextReporter ==
  \/ ImportHook
  \/ \E kind \in {"error", "unhandledrejection"}, value \in HostValues :
       HostRaises(kind, value)
  \/ \E content \in ManualContents : ManualCall(content)
  \/ \E p \in Procs, outcome \in DialogOutcomes(os) : DialogReturns(p, outcome)
  \/ \E p \in Procs, outcome \in FetchOutcomes : FetchReturns(p, outcome)
  \/ \E p \in Procs : RejectionReported(p)

SpecReporter == InitReporter /\ [][NextReporter]_vars

\* requests that pass every check of the handler, handled at the same time by
\* a store that accepts every write
EnvelopeBodies ==
  { <<"{", "timestamp", ":", "t0", ",", "report", ":", "null", "}">>,
    <<"{", "timestamp", ":", "t0", ",", " ", "report", ":", "{", "type", ":",
      "error", "}", ",", "reporterInfo", ":", "{", "os", ":", "linux", "}", "}">> }
ValidRequests ==
  [path : {REPORT_PATH}, method : {"POST"},
   ctype : {Header(<<"application/json">>)}, body : EnvelopeBodies]

InitConcurrent ==
  /\ slots = [i \in 1..MaxInFlight |-> Idle]
  /\ store = [key \in {} |-> JNull]
  /\ openKvHandles = 0
  /\ issued = {}
  /\ kvFailures = 0
  /\ env = Unset
  /\ os = "linux"
  /\ ReporterAtRest
  /\ UtilsAtRest

NextConcurrent ==
  \/ \E r \in ValidRequests : Receive(r)
  \/ \E i \in Slots : ReadBody(i)
  \/ \E i \in Slots : OpenKvOk(i)
  \/ \E i \in Slots : KvSetOk(i)
  \/ \E i \in Slots : Deliver(i)

SpecConcurrent == InitConcurrent /\ [][NextConcurrent]_vars

\* values serializeValueForReport is called with
SeqsUpTo(S, n) == UNION {[1..m -> S] : m \in 0..n}
PlainErrors ==
  { ErrorValue("Error", "boom", <<>>),
    ErrorValue("HttpError", "not found", << <<"code", JNum(1)>> >>),
    ErrorValue("Error", "", << <<"code", JNum(1)>>, <<"cause", JStr("x")>> >>) }
PlainValues ==
  { JNull, JBool(TRUE), JNum(1), JStr("oops"), JArr(<<JNum(1)>>),
    JObj(<< <<"name", JStr("NotAnError")>>, <<"message", JStr("m")>> >>),
    CyclicValue }
SubErrors == PlainErrors \cup {JStr("oops")}
Aggregates ==
  { AggregateErrorValue("multi", errors, <<>>) :
      errors \in SeqsUpTo(SubErrors, MaxSubErrors) }
NestedAggregates ==
  { AggregateErrorValue("outer", <<a>>, << <<"code", JNum(1)>> >>) :
      a \in Aggregates }
  \cup { AggregateErrorValue("outer", <<ErrorValue("Error", "boom", <<>>), a>>,
                             <<>>) : a \in Aggregates }
SerializeInputs ==
  PlainErrors \cup PlainValues \cup Aggregates \cup NestedAggregates

InitSerialize ==
  /\ input \in SerializeInputs
  /\ output = NotCalled
  /\ env = Unset
  /\ os = "linux"
  /\ ReporterAtRest
  /\ CollectorAtRest

NextSerialize == Serialize

SpecSerialize == InitSerialize /\ [][NextSerialize]_vars

\* a host that relies on the hook alone and never calls crashReport itself
NextHook ==
  \/ ImportHook
  \/ \E kind \in {"error", "unhandledrejection"}, value \in HostValues :
       HostRaises(kind, value)
  \/ \E p \in Procs, outcome \in DialogOutcomes(os) : DialogReturns(p, outcome)
  \/ \E p \in Procs, outcome \in FetchOutcomes : FetchReturns(p, outcome)
  \/ \E p \in Procs : RejectionReported(p)

\* what the runtime and the outside world do once it is pending: the dialog
\* command exits, the fetch settles, a rejected listener promise is reported
Progress ==
  \/ \E p \in Procs, outcome \in DialogOutcomes(os) : DialogReturns(p, outcome)
  \/ \E p \in Procs, outcome \in FetchOutcomes : FetchReturns(p, outcome)
  \/ \E p \in Procs : RejectionReported(p)

SpecHookFair == InitReporter /\ [][NextHook]_vars /\ WF_vars(Progress)

\* ------------------------------------------------------------------- claims
IsListener(p) == p.origin \in {"error", "unhandledrejection"}

\* C1: once a listener of the hook has been triggered, and the dialog and the
\* network calls return, the host process ends with exit status 1, whatever
\* the dialog and the POST answered.
C1_TriggerEndsInExit1 ==
  (\E p \in Procs : IsListener(p)) ~> (exited /\ exitCode = 1)

C1_Witness ==
  /\ exited /\ exitCode = 1
  /\ \E p \in Procs :
       /\ IsListener(p) /\ p.pc = "exited"
       /\ p.dialog.kind = "throw" /\ ~p.confirmed /\ ~p.post.sent
  /\ \E q \in Procs : IsListener(q) /\ q.pc = "fetch"

\* C2: a POST has been issued only by an invocation whose confirmation step
\* returned true.
C2_PostOnlyWhenConfirmed ==
  \A p \in Procs :
    /\ p.post.sent => p.confirmed /\ p.dialog.kind # ""
    /\ p.dialog.kind # "" /\ ~p.confirmed => ~p.post.sent /\ p.pc # "fetch"

C2_Witness ==
  /\ \E p \in Procs : p.post.sent /\ p.confirmed /\ p.fetched = "ok"
  /\ \E q \in Procs : q.dialog.kind = "exit" /\ ~q.confirmed /\ ~q.post.sent

\* C3: with CRASH_REPORT_BASE_URL not set the hook adds no listener, no
\* listener ever runs, and no POST is issued.
C3_UnsetMeansNoListenersNoPost ==
  ~env.present =>
    /\ listeners = {}
    /\ \A p \in Procs : ~IsListener(p) /\ ~p.post.sent

C3_Witness ==
  ~env.present /\ hook = "imported" /\ raised = 1 /\ exited /\ procs = EmptyBag

\* C4: with no base URL configured, a direct crashReport call with content
\* that is a report (not empty, blank or "{}") presents no dialog, sends
\* nothing and returns.
C4_InactiveWithoutBaseUrl ==
  ~env.present =>
    \A p \in Procs :
      p.origin = "manual" /\ ~EmptyOrMinimal(p.content)
        => p.dialogCalls = 0 /\ ~p.post.sent /\ p.pc # "exited"

\* --- Collector
Done(i) == slots[i].pc = "done"
Member(v, key) == v.v[CHOOSE i \in 1..Len(v.v) : v.v[i][1] = key][2]

\* a body that is a JSON object with a report key and a timestamp key
IsEnvelope(body) ==
  LET parsed == JSONParse(body) IN
  /\ parsed.ok
  /\ parsed.val.k = "obj"
  /\ HasKey(parsed.val, "report")
  /\ HasKey(parsed.val, "timestamp")

\* a Content-Type that names application/json in any letter case
IsJsonContentType(ctype) ==
  /\ ctype.present
  /\ \E i \in 1..Len(ctype.val) :
       ctype.val[i] \in {"application/json", "Application/JSON", "APPLICATION/JSON"}

\* C5: when the store accepts the write the answer is 201, and a 201 carries
\* {message, id} and leaves under ["reports", id] exactly the submitted
\* payload, that is the JSON value the request body encodes.
C5_AcceptedEnvelopeStoredAsSent ==
  \A i \in Slots :
    Done(i) =>
      /\ slots[i].kvOutcome = "ok" => slots[i].resp.status = 201
      /\ slots[i].resp.status = 201 =>
           LET out == JSONParse(slots[i].resp.body) IN
           /\ out.ok /\ out.val.k = "obj"
           /\ Len(out.val.v) = 2
           /\ HasKey(out.val, "message") /\ HasKey(out.val, "id")
           /\ Member(out.val, "message") = JStr("Report received successfully")
           /\ Member(out.val, "id").k = "str"
           /\ <<"Content-Type", "application/json">> \in slots[i].resp.headers
           /\ <<"reports", Member(out.val, "id").v>> \in DOMAIN store
           /\ store[<<"reports", Member(out.val, "id").v>>]
                = JSONParse(slots[i].req.body).val

C5_Witness ==
  \E i \in Slots :
    /\ Done(i) /\ slots[i].resp.status = 201
    /\ HasKey(JSONParse(slots[i].req.body).val, "reporterInfo")
    /\ store[<<"reports", slots[i].reportId>>] = JSONParse(slots[i].req.body).val

\* the status the first failing check gives, 0 when every check passes
C6_Expected(r) ==
  IF r.path # "/api/report" THEN 404
  ELSE IF r.method # "POST" THEN 405
  ELSE IF ~IsJsonContentType(r.ctype) THEN 415
  ELSE IF ~JSONParse(r.body).ok THEN 400
  ELSE IF ~IsEnvelope(r.body) THEN 400
  ELSE 0

\* C6: the status of every answer is the one of the first failing check in
\* the order path, method, content type, JSON syntax, shape; a 405 carries
\* Allow: POST.
C6_FirstFailingCheckDecides ==
  \A i \in Slots :
    Done(i) =>
      /\ IF C6_Expected(slots[i].req) = 0
         THEN slots[i].resp.status \in {201, 500}
         ELSE slots[i].resp.status = C6_Expected(slots[i].req)
      /\ slots[i].resp.status = 405 => <<"Allow", "POST">> \in slots[i].resp.headers

C6_Witness ==
  \E i \in Slots :
    /\ Done(i) /\ slots[i].resp.status = 405
    /\ ~slots[i].req.ctype.present /\ ~JSONParse(slots[i].req.body).ok

\* C7: a POST to the report path with a JSON content type passes validation
\* exactly when its body parses to an object with report and timestamp; any
\* other body is answered 400.
C7_AcceptedIffEnvelope ==
  \A i \in Slots :
    ( /\ Done(i)
      /\ slots[i].req.path = "/api/report"
      /\ slots[i].req.method = "POST"
      /\ IsJsonContentType(slots[i].req.ctype) )
    => /\ slots[i].resp.status \in {201, 500} <=> IsEnvelope(slots[i].req.body)
       /\ ~IsEnvelope(slots[i].req.body) => slots[i].resp.status = 400

C7_Witness ==
  \E i \in Slots :
    /\ Done(i) /\ slots[i].resp.status = 400
    /\ JSONParse(slots[i].req.body).ok
    /\ JSONParse(slots[i].req.body).val.k = "arr"

\* C8: a handler that has returned holds no open store handle, and with no
\* request in progress no store handle is open.
C8_HandleClosedOnEveryPath ==
  /\ \A i \in Slots : slots[i].pc \in {"done", "idle"} => ~slots[i].kv
  /\ (\A i \in Slots : slots[i].pc = "idle") => openKvHandles = 0

\* C9: a commit that is not acknowledged, or a store that throws, is answered
\* 500 with the one fixed body; every 500 has that body.
C9_StorageFailureIsOpaque500 ==
  \A i \in Slots :
    Done(i) =>
      /\ slots[i].kvOutcome \notin {"", "ok"} => slots[i].resp.status = 500
      /\ slots[i].resp.status = 500 =>
           slots[i].resp.body = <<"Internal Server Error: Failed to store report">>

C9_Witness ==
  \E i \in Slots :
    /\ Done(i) /\ slots[i].kvOutcome = CommitFailed
    /\ slots[i].resp.status = 500

\* C10: no step changes or removes a stored record, and the store changes
\* only by an accepted request adding one new key.
C10_RecordsNeverChange ==
  [][ /\ \A key \in DOMAIN store : key \in DOMAIN store' /\ store'[key] = store[key]
      /\ \A i \in Slots :
           slots[i].pc = "set" /\ slots'[i].resp.status = 201
             => Cardinality(DOMAIN store') = Cardinality(DOMAIN store) + 1
      /\ store' # store
           => \E i \in Slots : slots[i].pc = "set" /\ slots'[i].resp.status = 201
    ]_vars

C10_Witness ==
  /\ Cardinality(DOMAIN store) = 2
  /\ \E i \in Slots : Done(i) /\ slots[i].resp.status = 201

\* C11: requests handled at the same time hold different identifiers; each one
\* answered 201 finds its own payload under its own identifier, whatever the
\* others wrote meanwhile; and every identifier handed out has its record as
\* soon as its write is over.
C11_ConcurrentRequestsKeepTheirRecords ==
  /\ \A i, j \in Slots :
       i # j /\ slots[i].reportId # "" /\ slots[j].reportId # ""
         => slots[i].reportId # slots[j].reportId
  /\ \A i \in Slots :
       Done(i) /\ slots[i].resp.status = 201 =>
         LET id == Member(JSONParse(slots[i].resp.body).val, "id").v IN
         /\ id = slots[i].reportId
         /\ <<"reports", id>> \in DOMAIN store
         /\ store[<<"reports", id>>] = JSONParse(slots[i].req.body).val
  /\ \A id \in issued :
       \/ <<"reports", id>> \in DOMAIN store
       \/ \E i \in Slots : slots[i].pc = "set" /\ slots[i].reportId = id

C11_Witness ==
  /\ \A i \in Slots : Done(i) /\ slots[i].resp.status = 201
  /\ \E i, j \in Slots : slots[i].req.body # slots[j].req.body
  /\ Cardinality(DOMAIN store) = Len(slots)

C13_FailedDialogFallsBackToConsole ==
  \A p \in Procs : p.dialog.kind = "throw" => p.prompted

\* C14: once the send has settled, with a success, a non-2xx status, an
\* unreadable body or a network error, crashReport's catch block has not run
\* and the caller has been returned to; content of a direct call that is not
\* JSON is sent as a parse_failure report.
C14_SendNeverThrows ==
  \A p \in Procs :
    /\ p.fetched # "" =>
         ~p.caught /\ p.post.sent /\ p.pc \in {"returned", "exited"}
    /\ p.post.sent /\ p.origin = "manual" /\ ~JSONParse(p.content).ok =>
         LET body == JSONParse(p.post.body) IN
         /\ body.ok /\ body.val.k = "obj" /\ HasKey(body.val, "report")
         /\ Member(Member(body.val, "report"), "type") = JStr("parse_failure")

C14_Witness ==
  \E p \in Procs :
    /\ p.origin = "manual" /\ ~JSONParse(p.content).ok
    /\ p.fetched = "networkError" /\ p.pc = "returned" /\ ~exited

\* C16: a direct call of crashReport never ends the process, whatever the
\* content string is.
C16_DirectCallNeverExits ==
  \A p \in Procs : p.origin = "manual" => p.pc # "exited"

\* C19: a listener triggered with a value that has no JSON form (a cyclic
\* object) still calls crashReport with a report of that trigger, which then
\* goes through the confirmation.
C19_UnrepresentableValueStillReported ==
  \A p \in Procs :
    IsListener(p) /\ Cyclic(p.value) => p.pc # "rejected" /\ p.dialogCalls = 1

\* b without its trailing slash
C20_WithoutTrailingSlash(b) ==
  IF b[Len(b)] = "/" THEN [i \in 1..(Len(b) - 1) |-> b[i]] ELSE b

\* C20: for every non-empty configured base URL b the endpoint is not null and
\* is b without its trailing slash, followed by /api/report.
C20_EndpointDerivedFromBaseUrl ==
  hook = "imported" /\ env.present /\ env.val # <<>> =>
    /\ CRASH_REPORT_ENDPOINT.present
    /\ CRASH_REPORT_ENDPOINT.val
         = C20_WithoutTrailingSlash(env.val) \o <<"/api/report">>

\* --- utils
\* C17: for an Error the result is an object with the name, the message and
\* the stack of the error and with every custom own property under its key
\* with the value it had; every other value is returned as it is.
C17_ErrorFieldsKept ==
  output # NotCalled =>
    IF input.k \in {"error", "aggregate"}
    THEN /\ output.k = "obj"
         /\ HasKey(output, "name") /\ Member(output, "name") = JStr(input.name)
         /\ HasKey(output, "message")
         /\ Member(output, "message") = JStr(input.message)
         /\ HasKey(output, "stack") /\ Member(output, "stack") = JStr(input.stack)
         /\ \A i \in 1..Len(input.props) :
              /\ HasKey(output, input.props[i][1])
              /\ Member(output, input.props[i][1]) = input.props[i][2]
    ELSE output = input

C17_Witness ==
  /\ output # NotCalled
  /\ input.k = "error" /\ Len(input.props) = 2
  /\ Member(output, "cause") = JStr("x")

\* C18: for an AggregateError the errors field of the result holds, in order,
\* the serialized form of each gathered error: an object with its name,
\* message and stack.
C18_AggregateErrorsSerialized ==
  output # NotCalled /\ input.k = "aggregate" =>
    /\ output.k = "obj" /\ HasKey(output, "errors")
    /\ Member(output, "errors").k = "arr"
    /\ Len(Member(output, "errors").v) = Len(input.errors)
    /\ \A i \in 1..Len(input.errors) :
         input.errors[i].k \in {"error", "aggregate"} =>
           LET entry == Member(output, "errors").v[i] IN
           /\ entry.k = "obj"
           /\ HasKey(entry, "name") /\ HasKey(entry, "stack")
           /\ HasKey(entry, "message")
           /\ Member(entry, "message") = JStr(input.errors[i].message)

\* C28: a request answered 404, 405, 415 or 400 never reached Deno.openKv and
\* no step it took changed the store or the open handles; the body of a
\* request is read only after its path, method and content type passed.
C28_RejectedLeavesNoTrace ==
  /\ [](\A i \in Slots :
         /\ slots[i].bodyRead =>
              /\ slots[i].req.path = "/api/report"
              /\ slots[i].req.method = "POST"
              /\ IsJsonContentType(slots[i].req.ctype)
         /\ Done(i) /\ slots[i].resp.status \in {404, 405, 415} =>
              ~slots[i].bodyRead
         /\ Done(i) /\ slots[i].resp.status \in {404, 405, 415, 400} =>
              ~slots[i].kv /\ slots[i].reportId = "" /\ slots[i].kvOutcome = "")
  /\ [][\A i \in Slots :
         slots[i].pc \in {"idle", "json"} /\ slots'[i] # slots[i]
           => store' = store /\ openKvHandles' = openKvHandles]_vars

C28_Witness ==
  /\ \E i \in Slots :
       /\ Done(i) /\ slots[i].resp.status = 400 /\ slots[i].bodyRead
       /\ ~JSONParse(slots[i].req.body).ok
  /\ Cardinality(DOMAIN store) = 1
  /\ openKvHandles = 0

\* C30: a request answered with a status other than 201 has no record under
\* the identifier it was given; a 500 follows no committed write.
C30_NoRecordWithoutA201 ==
  \A i \in Slots :
    Done(i) /\ slots[i].resp.status # 201 =>
      KvKey(slots[i].reportId) \notin DOMAIN store

C30_Witness ==
  \E i \in Slots :
    /\ Done(i) /\ slots[i].resp.status = 500
    /\ slots[i].reportId # "" /\ slots[i].kvOutcome = "database is locked"
    /\ KvKey(slots[i].reportId) \notin DOMAIN store

\* --- Reporter: one invocation, and two of them at once
\* C22: one call of crashReport presents at most one dialog and issues at
\* most one POST, the self-report of the catch block included; the POST it
\* holds is the one it issued.
C22_AtMostOneDialogOnePost ==
  \A p \in Procs :
    /\ p.dialogCalls <= 1
    /\ p.postCalls <= 1
    /\ p.post.sent <=> p.postCalls = 1
    /\ p.dialog.kind # "" => p.dialogCalls = 1
    /\ p.fetched # "" => p.postCalls = 1

C22_Witness ==
  /\ \E p \in Procs :
       /\ p.origin = "manual" /\ p.pc = "returned"
       /\ p.dialogCalls = 1 /\ p.postCalls = 1 /\ p.fetched = "networkError"
  /\ \E q \in Procs : IsListener(q) /\ q.pc = "fetch" /\ q.postCalls = 1

\* C23: with several listeners at work, one that is through with its own
\* dialog and its own POST ends the process with status 1 at once, whatever
\* the others are waiting for.
C23_FirstFinisherExits ==
  /\ exited => exitCode = 1
  /\ \A p \in Procs :
       IsListener(p) /\ p.dialog.kind # "" /\ p.pc # "fetch"
         => exited /\ p.pc = "exited"

C23_Witness ==
  /\ exited /\ exitCode = 1
  /\ \E p \in Procs : IsListener(p) /\ p.pc = "exited" /\ p.fetched = "ok"
  /\ \E q \in Procs :
       IsListener(q) /\ q.pc = "dialog" /\ ~q.post.sent /\ q.dialog.kind = ""

\* C25: a listener has called preventDefault; it has ended the process only
\* after its dialog answered and, if it issued a POST, after that POST
\* settled; its POST was issued only after its dialog answered true.
C25_StepsInOrder ==
  \A p \in Procs :
    IsListener(p) =>
      /\ p.prevented
      /\ p.pc = "exited" =>
           p.dialog.kind # "" /\ (p.post.sent => p.fetched # "")
      /\ p.post.sent => p.dialog.kind # "" /\ p.confirmed
      /\ p.fetched # "" => p.post.sent

C25_Witness ==
  \E p \in Procs :
    /\ IsListener(p) /\ p.pc = "exited" /\ p.prevented
    /\ p.dialog.kind = "exit" /\ p.confirmed
    /\ p.post.sent /\ p.fetched = "status"

\* content that is empty, only whitespace, or {} between whitespace
C26_Trivial(t) ==
  \/ \A i \in 1..Len(t) : t[i] = " "
  \/ \E a \in 0..Len(t) :
       /\ a + 2 <= Len(t)
       /\ \A i \in 1..a : t[i] = " "
       /\ t[a + 1] = "{" /\ t[a + 2] = "}"
       /\ \A i \in (a + 3)..Len(t) : t[i] = " "

\* C26: crashReport called with empty, blank or {} content presents no dialog
\* and issues no POST.
C26_TrivialContentSkipsSend ==
  \A p \in Procs :
    C26_Trivial(p.content) =>
      p.dialogCalls = 0 /\ p.dialog.kind = "" /\ ~p.post.sent /\ p.postCalls = 0

C26_Witness ==
  \E p \in Procs :
    /\ p.origin = "manual" /\ p.content = <<" ", "{", "}">>
    /\ p.dialogCalls = 0 /\ ~p.post.sent /\ env.present

\* C29: every run of a hook listener ends in its Deno.exit(1): a listener
\* that is no longer waiting for its dialog, its POST or its finally block
\* has exited the process, also when stringifying the report data threw
\* before crashReport was called.
C29_EveryHandlerPathExits ==
  \A p \in Procs :
    IsListener(p) /\ p.pc \notin {"dialog", "fetch", "finished"}
      => p.pc = "exited"

\* ------------------------------------------ the single-file reporter.ts
\* what the host throws or rejects with: a string holds its text
SingleFile_HostValues ==
  { ErrorValue("Error", "boom", <<>>), JText(<<"oops">>), JText(<<" ">>),
    CyclicValue }

\* String(v), as a template literal inserts it
SingleFile_ToString(v) ==
  IF v.k = "text" THEN v.v
  ELSE IF v.k = "error" THEN <<v.name, ": ", v.message>>
  ELSE <<"[object Object]">>

\* event.message of an ErrorEvent
SingleFile_Message(value) ==
  JText(<<"Uncaught ">> \o SingleFile_ToString(value))

\* `${CRASH_REPORT_BASE_URL}/api/report`
SingleFile_CRASH_REPORT_ENDPOINT ==
  (IF env.present THEN env.val ELSE <<"undefined">>) \o <<"/api/report">>

\* fetch takes an absolute URL, and throws on anything else
SingleFile_UrlParses(u) == u # <<>> /\ u[1] = "http://h"

\* sendReport up to its await: the content goes into the envelope as a string
SingleFile_sendReport(p, content) ==
  IF SingleFile_UrlParses(SingleFile_CRASH_REPORT_ENDPOINT)
  THEN [p EXCEPT
          !.pc = "fetch", !.postCalls = @ + 1, !.content = content,
          !.post = [sent |-> TRUE, url |-> SingleFile_CRASH_REPORT_ENDPOINT,
                    method |-> "POST",
                    headers |-> {<<"Content-Type", "application/json">>},
                    body |-> JSONStringify(JObj(<<
                      <<"timestamp", JStr("now")>>,
                      <<"report", JText(content)>>,
                      <<"reporterInfo",
                        JObj(<< <<"os", JStr(os)>>,
                                <<"arch", JStr("x86_64")>> >>)>> >>))]]
  ELSE [p EXCEPT !.pc = "finished"]

\* the catch block of crashReport: the message with the error and the report
\* data is sent without a dialog, then Deno.exit(1)
SingleFile_CatchBlock(p, err) ==
  SingleFile_sendReport(
    [p EXCEPT !.caught = TRUE],
    <<"Crash Reporter Internal Error:">> \o SingleFile_ToString(err)
      \o <<"Original Report Data:">> \o SingleFile_ToString(p.value))

SingleFile_TrimTypeError ==
  ErrorValue("TypeError", "reportContent.trim is not a function", <<>>)

\* crashReport up to its first await; reportContent is whatever the listener
\* passed, a string or not
SingleFile_crashReport(origin, reportContent) ==
  LET p == [origin |-> origin, value |-> reportContent, content |-> <<>>,
            pc |-> "dialog", dialog |-> NoOutcome, confirmed |-> FALSE,
            dialogCalls |-> 0, post |-> NoPost, fetched |-> "",
            secondary |-> FALSE, caught |-> FALSE, prompted |-> FALSE,
            postCalls |-> 0, prevented |-> TRUE] IN
  IF reportContent.k # "text" THEN SingleFile_CatchBlock(p, SingleFile_TrimTypeError)
  ELSE IF Trim(reportContent.v) = <<>> THEN [p EXCEPT !.pc = "exit0"]
  ELSE [p EXCEPT !.dialogCalls = 1]

\* the listeners: event.preventDefault(), then crashReport with event.message
\* or event.reason
SingleFile_Listener(kind, value) ==
  SingleFile_crashReport(
    kind, IF kind = "error" THEN SingleFile_Message(value) ELSE value)

\* showConfirmationDialog: the answer of the command or of prompt(), false
\* when the command cannot be run
SingleFile_showConfirmationDialog(o, outcome) ==
  outcome.kind # "throw" /\ outcome.success

\* crashReport once the dialog has answered
SingleFile_AfterDialog(p, confirmed) ==
  IF confirmed
  THEN SingleFile_sendReport([p EXCEPT !.confirmed = TRUE],
                             SingleFile_ToString(p.value))
  ELSE [p EXCEPT !.pc = "finished"]

\* an invocation waits on, or ends the process: Deno.exit(0) of the guard,
\* Deno.exit(1) of the catch block or of the listener
SingleFile_Settle(others, q) ==
  IF q.pc \in {"dialog", "fetch"}
  THEN /\ procs' = others (+) One(q)
       /\ UNCHANGED <<exited, exitCode>>
  ELSE /\ procs' = others (+) One([q EXCEPT !.pc = "exited"])
       /\ exited' = TRUE
       /\ exitCode' = IF q.pc = "exit0" THEN 0 ELSE 1

\* the module is imported: both listeners are added, whatever the environment
SingleFile_Import ==
  /\ ~exited
  /\ hook = "pending"
  /\ hook' = "imported"
  /\ listeners' = {"error", "unhandledrejection"}
  /\ UNCHANGED <<env, os, procs, raised, called, exited, exitCode, collectorVars, utilVars>>

SingleFile_HostRaises(kind, value) ==
  /\ ~exited
  /\ kind \in listeners
  /\ raised < MaxInvocations
  /\ raised' = raised + 1
  /\ SingleFile_Settle(procs, SingleFile_Listener(kind, value))
  /\ UNCHANGED <<env, os, hook, listeners, called, collectorVars, utilVars>>

SingleFile_DialogReturns(p, outcome) ==
  /\ ~exited
  /\ p.pc = "dialog"
  /\ SingleFile_Settle(
       procs (-) One(p),
       SingleFile_AfterDialog([p EXCEPT !.dialog = outcome],
                              SingleFile_showConfirmationDialog(os, outcome)))
  /\ UNCHANGED <<env, os, hook, listeners, raised, called, collectorVars, utilVars>>

\* await fetch(...) settles; every outcome is caught or logged in sendReport
SingleFile_FetchReturns(p, outcome) ==
  /\ ~exited
  /\ p.pc = "fetch"
  /\ SingleFile_Settle(procs (-) One(p),
                       [p EXCEPT !.fetched = outcome, !.pc = "finished"])
  /\ UNCHANGED <<env, os, hook, listeners, raised, called, collectorVars, utilVars>>

NextSingleFile ==
  \/ SingleFile_Import
  \/ \E kind \in {"error", "unhandledrejection"}, value \in SingleFile_HostValues :
       SingleFile_HostRaises(kind, value)
  \/ \E p \in Procs, outcome \in DialogOutcomes(os) :
       SingleFile_DialogReturns(p, outcome)
  \/ \E p \in Procs, outcome \in FetchOutcomes : SingleFile_FetchReturns(p, outcome)

SpecSingleFile == InitReporter /\ [][NextSingleFile]_vars

\* the text t holds the text s
C24_Contains(t, s) ==
  \E i \in 0..(Len(t) - Len(s)) : SubSeq(t, i + 1, i + Len(s)) = s

\* C24: in the single-file reporter no POST that holds the report data of a
\* trigger is made unless the dialog of that trigger returned true.
C24_NoPostWithoutConfirmation ==
  \A p \in Procs :
    p.post.sent /\ C24_Contains(p.content, SingleFile_ToString(p.value))
      => p.dialog.kind # "" /\ p.confirmed

\* --------------------------------------- the Reporter's requests, collected
\* the pieces of a text put together
RECURSIVE Concat(_)
Concat(t) == IF t = <<>> THEN "" ELSE Head(t) \o Concat(Tail(t))

\* new URL(req.url).pathname of a request sent to url: what follows the origin
Pathname(url) == IF Len(url) < 2 THEN "/" ELSE Concat(Tail(url))

\* the request the Collector's handler sees for a fetch of the Reporter
RequestOf(post) ==
  [path |-> Pathname(post.url),
   method |-> post.method,
   ctype |-> IF \E h \in post.headers : h[1] = "Content-Type"
             THEN Header(<<(CHOOSE h \in post.headers : h[1] = "Content-Type")[2]>>)
             ELSE NoHeader,
   body |-> post.body]

\* the fetch of invocation p reaches the Collector
Transmit(p) ==
  /\ p.pc = "fetch"
  /\ Receive(RequestOf(p.post))

\* a host that raises one error or makes one call, its reports sent to a
\* Collector whose store accepts every write
NextPipeline ==
  \/ ImportHook
  \/ procs = EmptyBag /\ \E kind \in {"error", "unhandledrejection"}, value \in HostValues :
       HostRaises(kind, value)
  \/ procs = EmptyBag /\ \E content \in ManualContents : ManualCall(content)
  \/ \E p \in Procs, outcome \in DialogOutcomes(os) : DialogReturns(p, outcome)
  \/ \E p \in Procs, outcome \in FetchOutcomes : FetchReturns(p, outcome)
  \/ \E p \in Procs : RejectionReported(p)
  \/ \E p \in Procs : Transmit(p)
  \/ \E i \in Slots : ReadBody(i)
  \/ \E i \in Slots : OpenKvOk(i)
  \/ \E i \in Slots : KvSetOk(i)
  \/ \E i \in Slots : Deliver(i)

SpecPipeline == InitReporter /\ [][NextPipeline]_vars

\* C21: the request of a send is a POST with the header Content-Type:
\* application/json whose body is a JSON object with a timestamp, a
\* reporterInfo holding os and arch and, when the content given to crashReport
\* encodes a JSON value, that value as report.
C21_EnvelopeOfTheContent ==
  \A p \in Procs :
    p.post.sent =>
      /\ p.post.method = "POST"
      /\ <<"Content-Type", "application/json">> \in p.post.headers
      /\ LET body == JSONParse(p.post.body) IN
         /\ body.ok /\ body.val.k = "obj"
         /\ HasKey(body.val, "timestamp")
         /\ Member(body.val, "timestamp") = JStr("now")
         /\ HasKey(body.val, "reporterInfo")
         /\ Member(body.val, "reporterInfo").k = "obj"
         /\ HasKey(Member(body.val, "reporterInfo"), "os")
         /\ Member(Member(body.val, "reporterInfo"), "os") = JStr(os)
         /\ HasKey(Member(body.val, "reporterInfo"), "arch")
         /\ HasKey(body.val, "report")
         /\ ~p.caught /\ JSONParse(p.content).ok =>
              Member(body.val, "report") = JSONParse(p.content).val

C21_Witness ==
  \E p \in Procs :
    /\ p.post.sent /\ ~p.caught /\ p.origin = "unhandledrejection"
    /\ JSONParse(p.content).ok
    /\ JSONParse(p.content).val.k = "obj"
    /\ HasKey(JSONParse(p.content).val, "reason")
    /\ p.fetched = "ok"

\* C27: the Collector answers no request of the Reporter with 404, 405, 415
\* or 400, whether the base URL ends in a slash or not and whether the
\* request is a report or the parse_failure fallback; the self-report the
\* catch block of crashReport would send for a waiting invocation passes the
\* same checks.
\* request r passes the routing, method, content-type and payload checks
C27_Passes(r) ==
  /\ r.path = REPORT_PATH
  /\ r.method = "POST"
  /\ ~BadContentType(r.ctype)
  /\ JSONParse(r.body).ok
  /\ ~InvalidShape(JSONParse(r.body).val)

C27_ReporterRequestsPassValidation ==
  /\ \A i \in Slots :
       Done(i) =>
         /\ \E p \in Procs : p.post.sent /\ slots[i].req = RequestOf(p.post)
         /\ slots[i].resp.status \notin {404, 405, 415, 400}
  /\ \A p \in Procs :
       p.pc = "dialog" /\ Truthy(CRASH_REPORT_ENDPOINT) =>
         C27_Passes(RequestOf(CatchBlock(p, DialogError("NotFound")).post))

C27_Witness ==
  /\ env = Set(<<"http://h", "/">>)
  /\ \E i \in Slots, p \in Procs :
       /\ Done(i) /\ slots[i].resp.status = 201
       /\ p.origin = "manual" /\ ~JSONParse(p.content).ok
       /\ slots[i].req = RequestOf(p.post)

====
